---------------------------- MODULE Spec2Model ----------------------------
(***************************************************************************)
(* A model of the curved video screen of src/src/curved-screen.ts and of   *)
(* the scene that uses it, src/src/index.ts.                               *)
(*                                                                         *)
(* Numbers.  The program computes with JavaScript numbers.  The model      *)
(* computes with exact values: a number is a fraction n/d in lowest terms  *)
(* (d > 0), or one of the three non-finite results of a division by zero   *)
(* (1/0 = Infinity, -1/0 = -Infinity, 0/0 = NaN, written with d = 0), or   *)
(* the positive square root of a fraction, kept by that fraction          *)
(* ([sqrtOf |-> q]).  An angle returned by Math.atan is kept by its        *)
(* tangent.  Every property below is therefore a property of the          *)
(* program's formulas in real arithmetic; the rounding of IEEE doubles is  *)
(* not modelled.                                                           *)
(***************************************************************************)
EXTENDS Integers, Sequences, FiniteSets, TLC

VARIABLES
    nextEntity,     \* engine: the number the next engine.addEntity() returns
    Transform,      \* component store: entity -> Transform value
    MeshRenderer,   \* component store: entity -> box mesh with its UV array
    Material,       \* component store: entity -> PBR material
    GltfContainer,  \* component store: entity -> model source
    VideoPlayer,    \* component store: entity -> video player
    calls,          \* the createCurvedScreen calls made so far: options and returned parent
    mainDone,       \* whether the scene's main() has run
    uvTotal,        \* the totalSegments a caller loop passes to setUVsForSegment
    uvOut           \* the results of that loop's setUVsForSegment calls so far

vars == <<nextEntity, Transform, MeshRenderer, Material, GltfContainer,
          VideoPlayer, calls, mainDone, uvTotal, uvOut>>

engineVars == <<nextEntity, Transform, MeshRenderer, Material, GltfContainer,
                VideoPlayer, calls, mainDone>>

uvVars == <<uvTotal, uvOut>>

---------------------------------------------------------------------------
(* Bounds of the model *)

\* the calls of createCurvedScreen explored in one behaviour
MaxCalls == 2
\* the largest totalSegments a caller loop passes to setUVsForSegment
MaxTotalSegments == 22
\* supplied curve factors are n / CurveDen for n in -1 .. MaxCurveNum
CurveDen == 2
MaxCurveNum == 3

---------------------------------------------------------------------------
(* Exact arithmetic *)

Abs(k) == IF k < 0 THEN -k ELSE k

Sgn(k) == IF k < 0 THEN -1 ELSE IF k > 0 THEN 1 ELSE 0

GCD[a \in Nat, b \in Nat] == IF b = 0 THEN a ELSE GCD[b, a % b]

\* a number: the fraction n/d, or a non-finite value when d = 0
Number == [n : Int, d : Nat]

\* n/d with the common factor g of n and d taken out, d made positive
Reduced[n \in Int, d \in Int, g \in Nat] ==
    [n |-> Sgn(d) * (n \div g), d |-> Sgn(d) * (d \div g)]

\* the number n/d, in lowest terms with a positive denominator; d = 0 gives
\* the non-finite values Infinity (1/0), -Infinity (-1/0) and NaN (0/0)
Num[n \in Int, d \in Int] ==
    IF d = 0 THEN [n |-> Sgn(n), d |-> 0]
    ELSE Reduced[n, d, GCD[Abs(n), Abs(d)]]

I(k) == [n |-> k, d |-> 1]

Zero == I(0)
One == I(1)

IsFinite(a) == a.d # 0

Neg(a) == [n |-> -a.n, d |-> a.d]

\* a + b over the least common denominator, g the common factor of a.d and b.d
AddOver[a \in Number, b \in Number, g \in Nat] ==
    Num[a.n * (b.d \div g) + b.n * (a.d \div g), (a.d \div g) * b.d]

\* a + b, of finite a and b
Add[a \in Number, b \in Number] == AddOver[a, b, GCD[a.d, b.d]]

Sub[a \in Number, b \in Number] == Add[a, Neg(b)]

\* a * b with the common factors g1 of a.n and b.d, and g2 of b.n and a.d,
\* cancelled first
MulCancelled[a \in Number, b \in Number, g1 \in Nat, g2 \in Nat] ==
    [n |-> (a.n \div g1) * (b.n \div g2), d |-> (a.d \div g2) * (b.d \div g1)]

\* a * b, of finite a and b
Mul[a \in Number, b \in Number] ==
    MulCancelled[a, b, GCD[Abs(a.n), b.d], GCD[Abs(b.n), a.d]]

\* JavaScript's a / b of finite a and b: a division by zero does not throw,
\* it gives Infinity, -Infinity or NaN
Div[a \in Number, b \in Number] ==
    IF b.n = 0 THEN Num[a.n, 0]
    ELSE Mul[a, [n |-> Sgn(b.n) * b.d, d |-> Abs(b.n)]]

Lt(a, b) == a.n * b.d < b.n * a.d

\* the positive square root of a finite q >= 0, kept by its square
Sqrt[q \in Number] == [sqrtOf |-> q]

\* a number, or the positive square root of one
Real == Number \cup [sqrtOf : Number]

\* the square of a number or of a square root
Square[a \in Real] == IF "sqrtOf" \in DOMAIN a THEN a.sqrtOf ELSE Mul[a, a]

\* a / b of positive a and b, either of which may be a square root
DivPos[a \in Real, b \in Real] == Sqrt[Div[Square[a], Square[b]]]

---------------------------------------------------------------------------
(* setUVsForSegment *)

Zero8 == <<Zero, Zero, Zero, Zero, Zero, Zero, Zero, Zero>>

\* without FIX 1: the slices are handed out in segment order
reversedSegmentIndex_NotReversed(segmentIndex, totalSegments) == segmentIndex

reversedSegmentIndex(segmentIndex, totalSegments) ==
    (totalSegments - 1) - segmentIndex

uStart(segmentIndex, totalSegments) ==
    Div[I(reversedSegmentIndex(segmentIndex, totalSegments)), I(totalSegments)]

uEnd(segmentIndex, totalSegments) ==
    Div[I(reversedSegmentIndex(segmentIndex, totalSegments) + 1), I(totalSegments)]

\* without FIX 2: each slice mirrored
VisibleFace_NotSwapped(us, ue) == <<us, One, ue, One, ue, Zero, us, Zero>>

\* the four corners of the visible face, face 5
VisibleFace(us, ue) == <<ue, One, us, One, us, Zero, ue, Zero>>

setUVsForSegment(segmentIndex, totalSegments) ==
    Zero8 \o Zero8 \o Zero8 \o Zero8
    \o VisibleFace(uStart(segmentIndex, totalSegments),
                   uEnd(segmentIndex, totalSegments))
    \o Zero8

---------------------------------------------------------------------------
(* The math library and the SDK's value constructors *)

\* Math.atan: the angle in (-pi/2, pi/2), in radians, kept by its tangent
MathAtan(slope) == [tan |-> slope]

\* Math.cos of such an angle: 1 / sqrt(1 + tan^2), which is positive
MathCos(angle) == Sqrt[Div[One, Add[One, Square[angle.tan]]]]

\* -angle * (180 / Math.PI): the opposite angle, in degrees
NegDegrees(angle) ==
    IF angle.tan = Zero THEN Zero ELSE [degreesOf |-> MathAtan(Neg(angle.tan))]

Vector3Create(x, y, z) == [x |-> x, y |-> y, z |-> z]

\* Quaternion.fromEulerDegrees: the rotation, kept by its Euler angles
QuaternionFromEulerDegrees(x, y, z) == [eulerDegrees |-> <<x, y, z>>]

\* Material.Texture.Video
MaterialTextureVideo(videoPlayerEntity) ==
    [tex |-> "videoTexture", videoPlayerEntity |-> videoPlayerEntity]

Color3White == [r |-> One, g |-> One, b |-> One]

---------------------------------------------------------------------------
(* The engine: entities and component stores *)

\* component.create(entity, value) on a component store
Create(store, entity, value) ==
    [e \in DOMAIN store \cup {entity} |-> IF e = entity THEN value ELSE store[e]]

\* engine.addEntity(): the entity it returns
NewEntity(s) == s.nextEntity

\* engine.addEntity(): the engine after it
AddEntity(s) == [s EXCEPT !.nextEntity = @ + 1]

\* the value of Transform.create(entity) called without a value
DefaultTransform ==
    [position |-> Vector3Create(Zero, Zero, Zero),
     rotation |-> QuaternionFromEulerDegrees(Zero, Zero, Zero),
     scale |-> Vector3Create(One, One, One)]

---------------------------------------------------------------------------
(* createCurvedScreen *)

totalSegments == 22

screenWidth == 16

screenHeight == 9

DefaultCurveFactor == Num[3, 10]

\* options.curveFactor || 0.3: a supplied 0 is replaced by the default too
ResolveCurveFactor_Falsy(options) ==
    IF "curveFactor" \in DOMAIN options /\ options.curveFactor # Zero
    THEN options.curveFactor
    ELSE DefaultCurveFactor

\* options.curveFactor ?? 0.3
ResolveCurveFactor(options) ==
    IF "curveFactor" \in DOMAIN options THEN options.curveFactor
    ELSE DefaultCurveFactor

\* without the half step: the segments' left edges, not their centres
SegmentX_LeftEdge(segmentIndex) ==
    Add[Div[Neg(I(screenWidth)), I(2)],
        Mul[I(segmentIndex), Div[I(screenWidth), I(totalSegments)]]]

\* counted from 1: the segments' right edges
SegmentX_RightEdge(segmentIndex) ==
    Add[Div[Neg(I(screenWidth)), I(2)],
        Mul[Add[I(segmentIndex), One], Div[I(screenWidth), I(totalSegments)]]]

SegmentX(segmentIndex) ==
    Add[Div[Neg(I(screenWidth)), I(2)],
        Mul[Add[I(segmentIndex), Num[1, 2]], Div[I(screenWidth), I(totalSegments)]]]

\* without the final scaling by the width
SegmentZ_NotScaled(curveFactor, x) ==
    Mul[Mul[curveFactor, Div[x, I(screenWidth)]], Div[x, I(screenWidth)]]

\* linear in x, one factor forgotten
SegmentZ_Linear(curveFactor, x) ==
    Mul[Mul[curveFactor, Div[x, I(screenWidth)]], I(screenWidth)]

SegmentZ(curveFactor, x) ==
    Mul[Mul[Mul[curveFactor, Div[x, I(screenWidth)]], Div[x, I(screenWidth)]],
        I(screenWidth)]

SegmentDerivative(curveFactor, x) ==
    Div[Mul[Mul[I(2), curveFactor], x], I(screenWidth)]

calculateSegmentTransform(segmentIndex, curveFactor) ==
    LET x == SegmentX(segmentIndex)
        z == SegmentZ(curveFactor, x)
        derivative == SegmentDerivative(curveFactor, x)
        angle == MathAtan(derivative)
        rotationY == NegDegrees(angle)
    IN  [position |-> Vector3Create(x, Zero, z),
         rotation |-> QuaternionFromEulerDegrees(Zero, rotationY, Zero),
         angle |-> angle]

\* without the correction by the cosine
adjustedWidth_NotWidened(angle) == Div[I(screenWidth), I(totalSegments)]

adjustedWidth(angle) ==
    DivPos[Div[I(screenWidth), I(totalSegments)], MathCos(angle)]

\* the material every segment gets
SegmentMaterial(options) ==
    [texture |-> options.videoTexture,
     roughness |-> One,
     specularIntensity |-> Zero,
     metallic |-> Zero,
     emissiveTexture |-> options.videoTexture,
     emissiveIntensity |-> One,
     emissiveColor |-> Color3White]

\* one pass of the creation loop, for segment i
CreateSegment(s, i, options, curveFactor, screenParent) ==
    LET segmentEntity == NewEntity(s)
        t == calculateSegmentTransform(i, curveFactor)
    IN  [AddEntity(s) EXCEPT
            !.Transform = Create(@, segmentEntity,
                [parent |-> screenParent,
                 position |-> t.position,
                 rotation |-> t.rotation,
                 scale |-> Vector3Create(adjustedWidth(t.angle), I(screenHeight),
                                         Num[1, 10])]),
            !.MeshRenderer = Create(@, segmentEntity,
                [mesh |-> "box", uvs |-> setUVsForSegment(i, totalSegments)]),
            !.Material = Create(@, segmentEntity, SegmentMaterial(options))]

\* the creation loop from segment i on
RECURSIVE SegmentLoop(_, _, _, _, _)
SegmentLoop(s, i, options, curveFactor, screenParent) ==
    IF i < totalSegments
    THEN SegmentLoop(CreateSegment(s, i, options, curveFactor, screenParent),
                     i + 1, options, curveFactor, screenParent)
    ELSE s

\* the scale left at its default
ParentTransform_UnitScale(options) ==
    [position |-> options.position,
     rotation |-> options.rotation,
     scale |-> Vector3Create(One, One, One)]

\* the parent entity's Transform
ParentTransform(options) ==
    [position |-> options.position,
     rotation |-> options.rotation,
     scale |-> options.scale]

\* one parent kept for all screens: the first call's parent is used again,
\* and its Transform replaced
createCurvedScreen_SharedParent(s, options) ==
    LET curveFactor == ResolveCurveFactor(options)
        screenParent == IF Len(calls) > 0 THEN calls[1].returned ELSE NewEntity(s)
        s0 == IF Len(calls) > 0 THEN s ELSE AddEntity(s)
        s1 == [s0 EXCEPT
                  !.Transform = Create(@, screenParent, ParentTransform(options))]
    IN  [engine |-> SegmentLoop(s1, 0, options, curveFactor, screenParent),
         returned |-> screenParent]

\* createCurvedScreen(options) on engine s: the engine after the call and the
\* entity the call returns
createCurvedScreen(s, options) ==
    LET curveFactor == ResolveCurveFactor(options)
        screenParent == NewEntity(s)
        s1 == [AddEntity(s) EXCEPT
                  !.Transform = Create(@, screenParent, ParentTransform(options))]
    IN  [engine |-> SegmentLoop(s1, 0, options, curveFactor, screenParent),
         returned |-> screenParent]

---------------------------------------------------------------------------
(* The state machine of the engine *)

\* the engine's entity counter and the stores createCurvedScreen writes
Engine ==
    [nextEntity |-> nextEntity, Transform |-> Transform,
     MeshRenderer |-> MeshRenderer, Material |-> Material]

Empty == [e \in {} |-> Zero]

Init ==
    /\ nextEntity = 1
    /\ Transform = Empty
    /\ MeshRenderer = Empty
    /\ Material = Empty
    /\ GltfContainer = Empty
    /\ VideoPlayer = Empty
    /\ calls = <<>>
    /\ mainDone = FALSE
    /\ uvTotal = 0
    /\ uvOut = <<>>

\* the options a caller passes when it leaves curveFactor out: those of
\* index.ts, and a second set that differs in every field
BaseOptions ==
    {[position |-> Vector3Create(Num[875, 1000], Num[53, 10], I(16)),
      rotation |-> QuaternionFromEulerDegrees(Zero, I(90), Zero),
      scale |-> Vector3Create(One, One, One),
      videoTexture |-> MaterialTextureVideo(101)],
     [position |-> Vector3Create(I(8), Num[26, 5], I(8)),
      rotation |-> QuaternionFromEulerDegrees(Zero, Zero, Zero),
      scale |-> Vector3Create(I(2), I(2), I(2)),
      videoTexture |-> MaterialTextureVideo(102)]}

\* the curve factors a caller supplies
CurveFactors == {Num[n, CurveDen] : n \in -1 .. MaxCurveNum}

\* the options a caller passes, with and without a curveFactor
OptionsSet ==
    {[position |-> o.position, rotation |-> o.rotation, scale |-> o.scale,
      videoTexture |-> o.videoTexture, curveFactor |-> c] :
        o \in BaseOptions, c \in CurveFactors}
    \cup BaseOptions

\* a call createCurvedScreen(options)
CreateCurvedScreen(options) ==
    /\ Len(calls) < MaxCalls
    /\ \E r \in {createCurvedScreen(Engine, options)} :
           /\ nextEntity' = r.engine.nextEntity
           /\ Transform' = r.engine.Transform
           /\ MeshRenderer' = r.engine.MeshRenderer
           /\ Material' = r.engine.Material
           /\ calls' = Append(calls, [options |-> options, returned |-> r.returned])
    /\ UNCHANGED <<GltfContainer, VideoPlayer, mainDone, uvTotal, uvOut>>

\* the options main() passes
MainOptions(videoTexture) ==
    [position |-> Vector3Create(Num[875, 1000], Num[53, 10], I(16)),
     rotation |-> QuaternionFromEulerDegrees(Zero, I(90), Zero),
     scale |-> Vector3Create(One, One, One),
     videoTexture |-> videoTexture,
     curveFactor |-> Num[3, 10]]

\* the scene's main(), which the engine runs once, before anything else
Main ==
    /\ ~mainDone
    /\ calls = <<>>
    /\ LET sceneBase == NewEntity(Engine)
           s1 == [AddEntity(Engine) EXCEPT
                     !.Transform = Create(@, sceneBase, DefaultTransform)]
           videoPlayerEntity == NewEntity(s1)
           s2 == AddEntity(s1)
           videoTexture == MaterialTextureVideo(videoPlayerEntity)
           r == createCurvedScreen(s2, MainOptions(videoTexture))
           ground == NewEntity(r.engine)
           s3 == [AddEntity(r.engine) EXCEPT
                     !.Transform = Create(@, ground, DefaultTransform)]
       IN  /\ nextEntity' = s3.nextEntity
           /\ Transform' = s3.Transform
           /\ MeshRenderer' = s3.MeshRenderer
           /\ Material' = s3.Material
           /\ GltfContainer' =
                  Create(Create(GltfContainer, sceneBase,
                                [src |-> "models/curved_screen.glb"]),
                         ground, [src |-> "models/ground_2x2.glb"])
           /\ VideoPlayer' =
                  Create(VideoPlayer, videoPlayerEntity,
                         [src |-> "887766104.m3u8", playing |-> TRUE, loop |-> TRUE])
           /\ calls' = Append(calls, [options |-> MainOptions(videoTexture),
                                      returned |-> r.returned])
    /\ mainDone' = TRUE
    /\ UNCHANGED <<uvTotal, uvOut>>

Next ==
    \/ Main
    \/ \E options \in OptionsSet : CreateCurvedScreen(options)

Spec == Init /\ [][Next]_vars

---------------------------------------------------------------------------
(* A caller loop over setUVsForSegment, for any totalSegments *)

InitUV ==
    /\ nextEntity = 1
    /\ Transform = Empty
    /\ MeshRenderer = Empty
    /\ Material = Empty
    /\ GltfContainer = Empty
    /\ VideoPlayer = Empty
    /\ calls = <<>>
    /\ mainDone = FALSE
    /\ uvTotal \in 0 .. MaxTotalSegments
    /\ uvOut = <<>>

\* the next call of the loop for (i = 0; i < totalSegments; i++); with
\* totalSegments = 0 the one call setUVsForSegment(0, 0).  The function has
\* no throw statement and a division does not throw, so every call returns
CallSetUVs ==
    /\ Len(uvOut) < (IF uvTotal = 0 THEN 1 ELSE uvTotal)
    /\ uvOut' = Append(uvOut,
           [segmentIndex |-> Len(uvOut),
            totalSegments |-> uvTotal,
            threw |-> FALSE,
            value |-> setUVsForSegment(Len(uvOut), uvTotal)])
    /\ UNCHANGED <<uvTotal, engineVars>>

NextUV == CallSetUVs

SpecUV == InitUV /\ [][NextUV]_vars

---------------------------------------------------------------------------
(* Reading a UV array *)

\* the horizontal texture coordinates of the visible face's four corners
UVTopLeft(uvs) == uvs[33]
UVTopRight(uvs) == uvs[35]
UVBottomRight(uvs) == uvs[37]
UVBottomLeft(uvs) == uvs[39]

\* the strip [StripStart, StripEnd] of the texture a UV array shows
StripStart(uvs) == UVTopRight(uvs)
StripEnd(uvs) == UVTopLeft(uvs)

---------------------------------------------------------------------------
C7_FailsFast ==
    \A k \in 1 .. Len(uvOut) :
        uvOut[k].totalSegments = 0 => uvOut[k].threw

\* what the call with totalSegments = 0 returns: uStart = -1/0 = -Infinity
\* and uEnd = 0/0 = NaN
C7_ReturnsNonFinite ==
    \A k \in 1 .. Len(uvOut) :
        uvOut[k].totalSegments = 0 =>
            /\ ~uvOut[k].threw
            /\ Len(uvOut[k].value) = 48
            /\ StripStart(uvOut[k].value) = [n |-> -1, d |-> 0]
            /\ StripEnd(uvOut[k].value) = [n |-> 0, d |-> 0]

---------------------------------------------------------------------------
(* Reading the screens the calls have built *)

Calls == 1 .. Len(calls)

Indices == 0 .. totalSegments - 1

\* the entity createCurvedScreen call k created for segment i
SegmentEntity(k, i) == calls[k].returned + 1 + i

\* its Transform
Seg(k, i) == Transform[SegmentEntity(k, i)]

\* the curve factor call k was to use
CurveFactorOf(k) ==
    IF "curveFactor" \in DOMAIN calls[k].options
    THEN calls[k].options.curveFactor
    ELSE Num[3, 10]

\* the tangent of the yaw of a rotation about the vertical axis
YawTan(rotation) ==
    LET yaw == rotation.eulerDegrees[2]
    IN  IF "degreesOf" \in DOMAIN yaw THEN yaw.degreesOf.tan ELSE Zero

\* the slope dz/dx of a segment's long axis: a yaw of -angle turns the local
\* x axis to (cos angle, 0, sin angle)
Slope(t) == Neg(YawTan(t.rotation))

\* the unadjusted width of a segment
UnadjustedWidth == Div[I(screenWidth), I(totalSegments)]

HalfWidth == Div[UnadjustedWidth, I(2)]

\* the square of a segment's horizontal projection, (scale.x * cos angle)^2
ProjectionSq(t) == Div[Square[t.scale.x], Add[One, Square[Slope(t)]]]

\* the depth of a segment's tangent line at horizontal position x
DepthAt(t, x) == Add[t.position.z, Mul[Slope(t), Sub[x, t.position.x]]]

RECURSIVE SumOfWidths(_)
SumOfWidths(n) == IF n = 0 THEN Zero ELSE Add[SumOfWidths(n - 1), UnadjustedWidth]

---------------------------------------------------------------------------
C5_CentreIsZero ==
    \A k \in Calls : \A i \in {10, 11} :
        /\ Seg(k, i).position.z = Zero
        /\ YawTan(Seg(k, i).rotation) = Zero

(* C5, amended: segments 10 and 11 are centred at x = -4/11 and x = 4/11,  *)
(* not at 0; both have curve depth curveFactor/121, the least of the       *)
(* screen when curveFactor >= 0, and tangent slopes -curveFactor/22 and    *)
(* +curveFactor/22; depth and rotation are zero exactly when curveFactor   *)
(* is 0.                                                                   *)
C5_CentreNearZero ==
    \A k \in Calls :
        LET c == CurveFactorOf(k)
        IN  /\ Seg(k, 10).position.x = Num[-4, 11]
            /\ Seg(k, 11).position.x = Num[4, 11]
            /\ \A i \in {10, 11} :
                  /\ Seg(k, i).position.z = Div[c, I(121)]
                  /\ (Seg(k, i).position.z = Zero) <=> (c = Zero)
                  /\ (YawTan(Seg(k, i).rotation) = Zero) <=> (c = Zero)
                  /\ (Seg(k, i).rotation.eulerDegrees[2] = Zero) <=> (c = Zero)
            /\ Slope(Seg(k, 10)) = Neg(Div[c, I(22)])
            /\ Slope(Seg(k, 11)) = Div[c, I(22)]
            /\ ~Lt(c, Zero) =>
                  \A i \in Indices : ~Lt(Seg(k, i).position.z, Seg(k, 10).position.z)

\* a curved screen, whose centre segments are neither at depth 0 nor unturned
C5_Witness ==
    \E k \in Calls :
        /\ CurveFactorOf(k) = Num[3, 10]
        /\ Seg(k, 10).position.z = Num[3, 1210]
        /\ Slope(Seg(k, 11)) = Num[3, 220]

---------------------------------------------------------------------------
(* The layout in closed form, for segment i and curve factor c:            *)
(*   x = (8i - 84)/11,  z = c (2i - 21)^2 / 121,  slope = c (2i - 21)/22,  *)
(*   adjusted width = (8/11) sqrt(1 + slope^2)                             *)

ClosedX(i) == Num[8 * i - 84, 11]

ClosedZ(i, c) == Div[Mul[c, I((2 * i - 21) * (2 * i - 21))], I(121)]

ClosedSlope(i, c) == Div[Mul[c, I(2 * i - 21)], I(22)]

ClosedWidthSq(i, c) ==
    Mul[Num[64, 121], Add[One, Square[ClosedSlope(i, c)]]]

\* the entities whose Transform names p as parent
ChildrenOf(p) ==
    {e \in DOMAIN Transform :
        "parent" \in DOMAIN Transform[e] /\ Transform[e].parent = p}

(* C8: when createCurvedScreen(options) has returned, there is one parent  *)
(* entity carrying options.position, options.rotation and options.scale,   *)
(* and 22 segment entities; every segment has the returned parent as its   *)
(* Transform parent; the segment of index i carries the pose of index i    *)
(* and the UV set setUVsForSegment(i, 22); and all 22 segments use the     *)
(* texture options.videoTexture.                                           *)
C8_ScreenBuilt ==
    /\ Cardinality(DOMAIN Transform)
          = (totalSegments + 1) * Len(calls) + (IF mainDone THEN 2 ELSE 0)
    /\ Cardinality(DOMAIN MeshRenderer) = totalSegments * Len(calls)
    /\ Cardinality(DOMAIN Material) = totalSegments * Len(calls)
    /\ \A k \in Calls :
          LET o == calls[k].options
              p == calls[k].returned
              c == CurveFactorOf(k)
          IN  /\ Transform[p] = [position |-> o.position,
                                 rotation |-> o.rotation,
                                 scale |-> o.scale]
              /\ p \notin DOMAIN MeshRenderer
              /\ p \notin DOMAIN Material
              /\ ChildrenOf(p) = {SegmentEntity(k, i) : i \in Indices}
              /\ Cardinality({SegmentEntity(k, i) : i \in Indices}) = totalSegments
              /\ \A i \in Indices :
                    LET e == SegmentEntity(k, i)
                    IN  /\ Transform[e].parent = p
                        /\ Transform[e].position
                              = Vector3Create(ClosedX(i), Zero, ClosedZ(i, c))
                        /\ Slope(Transform[e]) = ClosedSlope(i, c)
                        /\ Transform[e].rotation.eulerDegrees[1] = Zero
                        /\ Transform[e].rotation.eulerDegrees[3] = Zero
                        /\ Square[Transform[e].scale.x] = ClosedWidthSq(i, c)
                        /\ Transform[e].scale.y = I(screenHeight)
                        /\ Transform[e].scale.z = Num[1, 10]
                        /\ MeshRenderer[e].uvs = setUVsForSegment(i, totalSegments)
                        /\ StripStart(MeshRenderer[e].uvs) = Num[21 - i, 22]
                        /\ StripEnd(MeshRenderer[e].uvs) = Num[22 - i, 22]
                        /\ Material[e].texture = o.videoTexture
                        /\ Material[e].emissiveTexture = o.videoTexture

\* a call with a scale other than 1 and the second texture has returned
C8_Witness ==
    \E k \in Calls :
        /\ calls[k].options.scale = Vector3Create(I(2), I(2), I(2))
        /\ Transform[calls[k].returned].scale = Vector3Create(I(2), I(2), I(2))
        /\ Material[SegmentEntity(k, 21)].texture = MaterialTextureVideo(102)
        /\ Cardinality(ChildrenOf(calls[k].returned)) = totalSegments

\* whether the curve factor of call k lies in the recommended range [0, 1]
InRecommendedRange(c) == ~Lt(c, Zero) /\ ~Lt(One, c)

\* the depth falls over segments 0 .. 10, rises over segments 11 .. 21, and
\* is least at the two centre segments
DepthVShaped(k) ==
    /\ \A i \in 0 .. 9 : Lt(Seg(k, i + 1).position.z, Seg(k, i).position.z)
    /\ \A i \in 11 .. 20 : Lt(Seg(k, i).position.z, Seg(k, i + 1).position.z)
    /\ \A i \in Indices : \A j \in {10, 11} :
          ~Lt(Seg(k, i).position.z, Seg(k, j).position.z)

(* C9, as stated: for every curveFactor of the recommended range [0, 1],   *)
(* and the default, the depth z strictly decreases over indices 0 .. 10    *)
(* and strictly increases over indices 11 .. 21, with its minimum at the   *)
(* centre segments.                                                        *)
C9_DepthNotMonotonic ==
    \A k \in Calls : InRecommendedRange(CurveFactorOf(k)) => DepthVShaped(k)

(* C9, amended: so it is for every curveFactor of (0, 1], and the default; *)
(* for curveFactor = 0 the depth is 0 at every index, so it neither        *)
(* decreases nor increases.                                                *)
C9_DepthNotMonotonicWhenCurved ==
    \A k \in Calls :
        LET c == CurveFactorOf(k)
        IN  /\ (InRecommendedRange(c) /\ c # Zero) => DepthVShaped(k)
            /\ c = Zero => \A i \in Indices : Seg(k, i).position.z = Zero
            /\ c = Zero => ~DepthVShaped(k)

\* a screen built with the default curve factor
C9_Witness ==
    \E k \in Calls :
        /\ "curveFactor" \notin DOMAIN calls[k].options
        /\ Lt(Seg(k, 10).position.z, Seg(k, 0).position.z)
        /\ Lt(Seg(k, 11).position.z, Seg(k, 21).position.z)

\* a Transform without its parent field
Pose(t) == [position |-> t.position, rotation |-> t.rotation, scale |-> t.scale]

\* a step leaves what earlier calls created as it was, and a call's
\* entities are new ones
EarlierUntouched ==
    /\ \A e \in DOMAIN Transform :
          e \in DOMAIN Transform' /\ Transform'[e] = Transform[e]
    /\ \A e \in DOMAIN MeshRenderer :
          e \in DOMAIN MeshRenderer' /\ MeshRenderer'[e] = MeshRenderer[e]
    /\ \A e \in DOMAIN Material :
          e \in DOMAIN Material' /\ Material'[e] = Material[e]
    /\ Len(calls') >= Len(calls)
    /\ SubSeq(calls', 1, Len(calls)) = calls
    /\ \A k \in Len(calls) + 1 .. Len(calls') :
          \A e \in calls'[k].returned .. calls'[k].returned + totalSegments :
              /\ e \notin DOMAIN Transform
              /\ e \in DOMAIN Transform'

\* what a call produced is decided by its own options
OwnOptionsOnly ==
    \A k \in Calls :
        /\ Pose(Transform[calls[k].returned]) =
              [position |-> calls[k].options.position,
               rotation |-> calls[k].options.rotation,
               scale |-> calls[k].options.scale]
        /\ \A i \in Indices :
              /\ Seg(k, i).position.z = ClosedZ(i, CurveFactorOf(k))
              /\ Slope(Seg(k, i)) = ClosedSlope(i, CurveFactorOf(k))
              /\ Material[SegmentEntity(k, i)].texture = calls[k].options.videoTexture
        /\ \A j \in Calls : \A i \in Indices :
              /\ MeshRenderer[SegmentEntity(k, i)].uvs
                    = MeshRenderer[SegmentEntity(j, i)].uvs
              /\ calls[k].options = calls[j].options =>
                    /\ Pose(Seg(k, i)) = Pose(Seg(j, i))
                    /\ Material[SegmentEntity(k, i)] = Material[SegmentEntity(j, i)]
              /\ k # j => SegmentEntity(k, i) # SegmentEntity(j, i)
              /\ k # j => calls[k].returned # calls[j].returned

(* C10: invocations of createCurvedScreen are independent: each call       *)
(* creates its own new parent and 22 segment entities, leaves every entity *)
(* and component of earlier calls unchanged, and produces poses and UV     *)
(* sets that depend on its own options only; the UV arrays of equal        *)
(* arguments are equal.                                                    *)
C10_Independent == [][EarlierUntouched /\ OwnOptionsOnly']_vars

\* two calls with different options and different curve factors have returned
C10_Witness ==
    /\ Len(calls) = 2
    /\ calls[1].options.position # calls[2].options.position
    /\ CurveFactorOf(1) # CurveFactorOf(2)
    /\ Seg(1, 0).position.z # Seg(2, 0).position.z
    /\ MeshRenderer[SegmentEntity(1, 0)].uvs = MeshRenderer[SegmentEntity(2, 0)].uvs

\* the segments of call k lie on the curve of curve factor c
BuiltWithCurveFactor(k, c) ==
    \A i \in Indices :
        /\ Seg(k, i).position.z = ClosedZ(i, c)
        /\ Slope(Seg(k, i)) = ClosedSlope(i, c)
        /\ Square[Seg(k, i).scale.x] = ClosedWidthSq(i, c)

\* the screen of call k is flat: every segment at depth 0, unturned, and as
\* wide as its unadjusted width
Flat(k) ==
    \A i \in Indices :
        /\ Seg(k, i).position.z = Zero
        /\ YawTan(Seg(k, i).rotation) = Zero
        /\ Seg(k, i).rotation.eulerDegrees[2] = Zero
        /\ Square[Seg(k, i).scale.x] = Square[UnadjustedWidth]

(* C11: createCurvedScreen resolves the curvature to 0.3 only when         *)
(* options.curveFactor is omitted; a supplied value is used unchanged,     *)
(* including 0, which is not replaced by the default and gives a flat      *)
(* screen: every segment has z = 0, tangent angle 0 and an adjusted width  *)
(* equal to the unadjusted width screenWidth/totalSegments.                *)
C11_DefaultOnlyWhenOmitted ==
    \A k \in Calls :
        LET o == calls[k].options
        IN  /\ "curveFactor" \notin DOMAIN o => BuiltWithCurveFactor(k, Num[3, 10])
            /\ "curveFactor" \in DOMAIN o => BuiltWithCurveFactor(k, o.curveFactor)
            /\ ("curveFactor" \in DOMAIN o /\ o.curveFactor # Num[3, 10]) =>
                  ~BuiltWithCurveFactor(k, Num[3, 10])
            /\ ("curveFactor" \in DOMAIN o /\ o.curveFactor = Zero) => Flat(k)

\* a call that supplied curveFactor 0 has returned, and its screen is flat
C11_Witness ==
    \E k \in Calls :
        /\ "curveFactor" \in DOMAIN calls[k].options
        /\ calls[k].options.curveFactor = Zero
        /\ Seg(k, 0).position.z = Zero
        /\ Square[Seg(k, 0).scale.x] = Num[64, 121]

===========================================================================
